---- MODULE Spec2Model ----
(***************************************************************************)
(* Model of eventapp.py: Merkle commitment over ERC-20 Transfer events.    *)
(*                                                                         *)
(* Byte strings.  A Python `bytes` value is a sequence of items.  An item  *)
(* is either <<n>>, one raw byte of value n, or <<"K", p>>, the 32 bytes   *)
(* of the Keccak-256 digest of the byte string p.  Two digests are equal   *)
(* exactly when their preimages are equal, and a digest differs from every *)
(* run of raw bytes: the hash is modelled as collision-free.  Everything   *)
(* else (concatenation, lengths, padding) is computed on the bytes.        *)
(***************************************************************************)
EXTENDS Integers, Sequences, FiniteSets, TLC

VARIABLES
    pc,        \* position of the running caller
    leaves,    \* argument of build_merkle_tree
    tree,      \* value returned by build_merkle_tree
    root,      \* value returned by merkle_root
    index,     \* index argument of merkle_proof
    proof,     \* value returned by merkle_proof
    err,       \* exception that ended the run, "none" while there is none
    vleaf,     \* arguments and result of verify_proof
    vproof,
    vroot,
    ok,
    log,       \* argument and results of build_event_leaf
    payload,
    leaf,
    args,      \* main: parsed command line and environment
    logs,      \* main: result of fetch_transfer_logs
    out,       \* main: lines printed, in order
    trace,     \* main: the calls into the Merkle engine and the index check, in order
    status     \* main: exit status, -1 while running

vars == <<pc, leaves, tree, root, index, proof, err, vleaf, vproof, vroot, ok,
          log, payload, leaf, args, logs, out, trace, status>>

merkleVars == <<leaves, tree, root, index, proof, vleaf, vproof, vroot, ok>>
leafVars == <<log, payload, leaf>>
mainVars == <<args, logs, out, trace, status>>

-----------------------------------------------------------------------------
(* Bounds of the model. *)

MaxLeaves == 5      \* longest leaf sequence handed to build_merkle_tree
MaxLogs == 3        \* longest log list returned to main

(* Program constants. *)

Width32 == 32       \* pad32: b.rjust(32, b"\x00"); also the Keccak-256 digest size
LogIndexWidth == 8  \* log_index.to_bytes(8, "big")

-----------------------------------------------------------------------------
(* Results of calls that can raise. *)

Return(v) == [err |-> "none", val |-> v]
Raise(e) == [err |-> e, val |-> <<>>]

-----------------------------------------------------------------------------
(* bytes *)

ItemLen(it) == IF Len(it) = 1 THEN 1 ELSE Width32

RECURSIVE ByteLen(_)
ByteLen(b) == IF b = <<>> THEN 0 ELSE ItemLen(Head(b)) + ByteLen(Tail(b))

Zeros(n) == [i \in 1..n |-> <<0>>]

Keccak(b) == << <<"K", b>> >>

pad32(b) == IF ByteLen(b) >= Width32 THEN b ELSE Zeros(Width32 - ByteLen(b)) \o b

(* keccak_pair hashing its left operand alone *)
keccak_pair_left_only(l, r) == Keccak(l)

keccak_pair(l, r) == Keccak(l \o r)

(* Python list indexing: level[i] with i possibly negative. *)
PyValid(seq, i) == -Len(seq) <= i /\ i < Len(seq)
PyGet(seq, i) == IF i >= 0 THEN seq[i + 1] ELSE seq[Len(seq) + i + 1]

-----------------------------------------------------------------------------
(* Merkle engine *)

(* pairing that pads an unpaired last node with 32 zero bytes *)
NextLevel_zero_padded(level) ==
    [j \in 1..((Len(level) + 1) \div 2) |->
        LET i == 2 * (j - 1)
            L == PyGet(level, i)
            R == IF i + 1 < Len(level) THEN PyGet(level, i + 1) ELSE Zeros(Width32)
        IN  keccak_pair(L, R)]

(* pairing over range(0, len(level) - 1, 2): an unpaired last node is dropped *)
NextLevel_drops_last(level) ==
    [j \in 1..(IF Len(level) = 1 THEN 1 ELSE Len(level) \div 2) |->
        LET i == 2 * (j - 1)
            L == PyGet(level, i)
            R == IF i + 1 < Len(level) THEN PyGet(level, i + 1) ELSE PyGet(level, i)
        IN  keccak_pair(L, R)]

NextLevel(level) ==
    [j \in 1..((Len(level) + 1) \div 2) |->
        LET i == 2 * (j - 1)
            L == PyGet(level, i)
            R == IF i + 1 < Len(level) THEN PyGet(level, i + 1) ELSE PyGet(level, i)
        IN  keccak_pair(L, R)]

RECURSIVE BuildLoop(_, _)
BuildLoop(t, level) ==
    IF Len(level) > 1
    THEN LET nxt == NextLevel(level) IN BuildLoop(Append(t, nxt), nxt)
    ELSE t

(* build_merkle_tree without its guard on the empty list *)
build_merkle_tree_unguarded(lvs) ==
    LET level == [i \in 1..Len(lvs) |-> pad32(lvs[i])]
    IN  Return(BuildLoop(<<level>>, level))

(* build_merkle_tree with the loop test after the first round of hashing *)
build_merkle_tree_hashes_first(lvs) ==
    IF lvs = <<>>
    THEN Raise("ValueError")
    ELSE LET level == [i \in 1..Len(lvs) |-> pad32(lvs[i])]
             nxt == NextLevel(level)
         IN  Return(BuildLoop(<<level, nxt>>, nxt))

build_merkle_tree(lvs) ==
    IF lvs = <<>>
    THEN Raise("ValueError")
    ELSE LET level == [i \in 1..Len(lvs) |-> pad32(lvs[i])]
         IN  Return(BuildLoop(<<level>>, level))

merkle_root(t) ==
    IF t = <<>> \/ t[Len(t)] = <<>>
    THEN Raise("IndexError")
    ELSE Return(t[Len(t)][1])

Xor1(idx) == IF idx % 2 = 0 THEN idx + 1 ELSE idx - 1

(* proof step with the two positions exchanged *)
ProofStep_swapped_pos(level, idx) ==
    LET sib_idx == Xor1(idx)
        at == IF sib_idx < Len(level) THEN sib_idx ELSE idx
        pos == IF idx % 2 = 0 THEN "left" ELSE "right"
    IN  IF PyValid(level, at) THEN Return(<<PyGet(level, at), pos>>)
        ELSE Raise("IndexError")

ProofStep(level, idx) ==
    LET sib_idx == Xor1(idx)
        at == IF sib_idx < Len(level) THEN sib_idx ELSE idx
        pos == IF idx % 2 = 0 THEN "right" ELSE "left"
    IN  IF PyValid(level, at) THEN Return(<<PyGet(level, at), pos>>)
        ELSE Raise("IndexError")

RECURSIVE ProofLoop(_, _, _, _)
ProofLoop(t, k, idx, acc) ==
    IF k >= Len(t)
    THEN Return(acc)
    ELSE LET step == ProofStep(t[k], idx)
         IN  IF step.err # "none" THEN Raise(step.err)
             ELSE ProofLoop(t, k + 1, idx \div 2, Append(acc, step.val))

merkle_proof(t, idx) == ProofLoop(t, 1, idx, <<>>)

VerifyStep(cur, step) ==
    LET sib == pad32(step[1])
    IN  IF step[2] = "right" THEN keccak_pair(cur, sib) ELSE keccak_pair(sib, cur)

RECURSIVE VerifyLoop(_, _)
VerifyLoop(cur, p) ==
    IF p = <<>> THEN cur ELSE VerifyLoop(VerifyStep(cur, Head(p)), Tail(p))

verify_proof(lf, p, r) == VerifyLoop(pad32(lf), p) = r

-----------------------------------------------------------------------------
(* Inputs of the Merkle engine. *)

LeafA == Keccak(<< <<1>> >>)
LeafB == Keccak(<< <<2>> >>)
LeafC == Keccak(<< <<3>> >>)
Short1 == << <<1>> >>        \* a one-byte leaf, which pad32 widens
Fresh == Keccak(<< <<9>> >>) \* a digest that is no leaf

LeafSet == {LeafA, LeafB, LeafC, Short1}

LeafSeqs == UNION {[1..n -> LeafSet] : n \in 0..MaxLeaves}

IndexSet == -2..(MaxLeaves + 1)

TamperSet == {LeafB, Fresh, pad32(Short1)}

(* p with the sibling of step k replaced by s *)
WithSibling(p, k, s) == [p EXCEPT ![k] = <<s, p[k][2]>>]

-----------------------------------------------------------------------------
(* A caller of the Merkle engine: build, root, proof, verify.              *)

NoLog == [transactionHash |-> <<>>, logIndex |-> [neg |-> FALSE, mag |-> <<>>],
          topics |-> <<>>, data |-> <<>>]
NoArgs == [token_ok |-> TRUE, from_le_to |-> TRUE, connected |-> TRUE, index |-> 0]

LeafIdle == log = NoLog /\ payload = <<>> /\ leaf = <<>>

MainIdle ==
    /\ args = NoArgs /\ logs = <<>> /\ out = <<>> /\ trace = <<>> /\ status = -1

Init ==
    /\ pc = "start"
    /\ leaves \in LeafSeqs
    /\ tree = <<>> /\ root = <<>> /\ index = 0 /\ proof = <<>>
    /\ err = "none"
    /\ vleaf = <<>> /\ vproof = <<>> /\ vroot = <<>> /\ ok = FALSE
    /\ LeafIdle /\ MainIdle

Build ==
    /\ pc = "start"
    /\ LET r == build_merkle_tree(leaves)
       IN  IF r.err # "none"
           THEN /\ pc' = "raised" /\ err' = r.err /\ tree' = tree
           ELSE /\ pc' = "built" /\ err' = err /\ tree' = r.val
    /\ UNCHANGED <<leaves, root, index, proof, vleaf, vproof, vroot, ok>>
    /\ UNCHANGED <<leafVars, mainVars>>

Root ==
    /\ pc = "built"
    /\ LET r == merkle_root(tree)
       IN  IF r.err # "none"
           THEN /\ pc' = "raised" /\ err' = r.err /\ root' = root
           ELSE /\ pc' = "rooted" /\ err' = err /\ root' = r.val
    /\ UNCHANGED <<leaves, tree, index, proof, vleaf, vproof, vroot, ok>>
    /\ UNCHANGED <<leafVars, mainVars>>

Prove ==
    /\ pc = "rooted"
    /\ \E i \in IndexSet :
        /\ index' = i
        /\ LET r == merkle_proof(tree, i)
           IN  IF r.err # "none"
               THEN /\ pc' = "raised" /\ err' = r.err /\ proof' = proof
               ELSE /\ pc' = "proved" /\ err' = err /\ proof' = r.val
    /\ UNCHANGED <<leaves, tree, root, vleaf, vproof, vroot, ok>>
    /\ UNCHANGED <<leafVars, mainVars>>

ValidIndex(i, lvs) == 0 <= i /\ i < Len(lvs)

(* The triples a verifier may be handed: the honest one, or the honest one *)
(* with the leaf, one sibling or the root replaced.                        *)
Triples ==
    LET lf == IF ValidIndex(index, leaves) THEN leaves[index + 1] ELSE leaves[1]
    IN  {<<lf, proof, root>>}
        \cup {<<x, proof, root>> : x \in TamperSet}
        \cup {<<lf, WithSibling(proof, k, x), root>> : k \in DOMAIN proof, x \in TamperSet}
        \cup {<<lf, proof, x>> : x \in TamperSet}

Verify ==
    /\ pc = "proved"
    /\ \E t \in Triples :
        /\ vleaf' = t[1] /\ vproof' = t[2] /\ vroot' = t[3]
        /\ ok' = verify_proof(t[1], t[2], t[3])
    /\ pc' = "done"
    /\ UNCHANGED <<leaves, tree, root, index, proof, err>>
    /\ UNCHANGED <<leafVars, mainVars>>

Next == Build \/ Root \/ Prove \/ Verify

Spec == Init /\ [][Next]_vars

-----------------------------------------------------------------------------
(* Leaf encoder.                                                           *)
(*                                                                         *)
(* A log carries transactionHash and topics[0] as HexBytes, whose hex() is *)
(* taken to give "0x" followed by the digits, and data as a "0x" string:   *)
(* the [2:] slices of build_event_leaf are written for that.  A Python int *)
(* is a sign and a big-endian magnitude without leading zero bytes, so     *)
(* that values past 2^64 can be written down.  A string is a sequence of   *)
(* one-character strings.                                                  *)

HexDigits == <<"0", "1", "2", "3", "4", "5", "6", "7",
               "8", "9", "a", "b", "c", "d", "e", "f">>

DigitValue(c) == CHOOSE v \in 0..15 : HexDigits[v + 1] = c

RECURSIVE HexOf(_)
HexOf(b) ==
    IF b = <<>> THEN <<>>
    ELSE <<HexDigits[(Head(b)[1] \div 16) + 1], HexDigits[(Head(b)[1] % 16) + 1]>>
         \o HexOf(Tail(b))

(* HexBytes.hex() *)
hex(b) == <<"0", "x">> \o HexOf(b)

(* s[2:] *)
From2(s) == SubSeq(s, 3, Len(s))

IsHex(s) == \A i \in DOMAIN s : \E v \in 0..15 : HexDigits[v + 1] = s[i]

(* bytes.fromhex(s) *)
fromhex(s) ==
    IF Len(s) % 2 # 0 \/ ~IsHex(s)
    THEN Raise("ValueError")
    ELSE Return([i \in 1..(Len(s) \div 2) |->
                    <<16 * DigitValue(s[2 * i - 1]) + DigitValue(s[2 * i])>>])

(* n.to_bytes(8, "big") *)
to_bytes(n) ==
    IF n.neg \/ Len(n.mag) > LogIndexWidth
    THEN Raise("OverflowError")
    ELSE Return(Zeros(LogIndexWidth - Len(n.mag)) \o n.mag)

build_event_leaf(l) ==
    LET txh == fromhex(From2(hex(l.transactionHash)))
        log_index == l.logIndex
        topic0 == IF PyValid(l.topics, 0)
                  THEN fromhex(From2(hex(PyGet(l.topics, 0))))
                  ELSE Raise("IndexError")
        data == fromhex(From2(l.data))
        index8 == to_bytes(log_index)
    IN  IF txh.err # "none" THEN Raise(txh.err)
        ELSE IF topic0.err # "none" THEN Raise(topic0.err)
        ELSE IF data.err # "none" THEN Raise(data.err)
        ELSE IF index8.err # "none" THEN Raise(index8.err)
        ELSE LET data_hash == Keccak(data.val)
                 pl == txh.val \o index8.val \o topic0.val \o data_hash
             IN  Return(<<pl, Keccak(pl)>>)

-----------------------------------------------------------------------------
(* Inputs of the leaf encoder. *)

Fill(n, v) == [i \in 1..n |-> <<v>>]

HashLens == {Width32 - 1, Width32, Width32 + 1}

PyInt(neg, mag) == [neg |-> neg, mag |-> mag]
IntSet == {PyInt(FALSE, <<>>), PyInt(FALSE, Fill(1, 1)), PyInt(TRUE, Fill(1, 1)),
           PyInt(FALSE, Fill(LogIndexWidth, 255)),
           PyInt(FALSE, Fill(1, 1) \o Fill(LogIndexWidth, 0))}

DataSet == {<<"0", "x">>, <<"0", "x", "0", "0">>,
            <<"0", "x", "a", "b", "0", "1", "f", "f">>}

RecordSet == {[transactionHash |-> Fill(n, 17), logIndex |-> i,
               topics |-> <<Fill(m, 221)>>, data |-> d] :
                 n \in HashLens, i \in IntSet, m \in HashLens, d \in DataSet}

(* A caller of build_event_leaf. *)

MerkleIdle ==
    /\ leaves = <<>> /\ tree = <<>> /\ root = <<>> /\ index = 0 /\ proof = <<>>
    /\ vleaf = <<>> /\ vproof = <<>> /\ vroot = <<>> /\ ok = FALSE

InitLeaf ==
    /\ pc = "leaf_start"
    /\ log \in RecordSet
    /\ payload = <<>> /\ leaf = <<>>
    /\ err = "none"
    /\ MerkleIdle /\ MainIdle

EncodeLeaf ==
    /\ pc = "leaf_start"
    /\ LET r == build_event_leaf(log)
       IN  IF r.err # "none"
           THEN /\ pc' = "leaf_raised" /\ err' = r.err
                /\ UNCHANGED <<payload, leaf>>
           ELSE /\ pc' = "leaf_done" /\ err' = err
                /\ payload' = r.val[1] /\ leaf' = r.val[2]
    /\ UNCHANGED <<log, merkleVars, mainVars>>

NextLeaf == EncodeLeaf

SpecLeaf == InitLeaf /\ [][NextLeaf]_vars

-----------------------------------------------------------------------------
(* main.  The command line, the RPC node and its answer are inputs.  An    *)
(* uncaught exception ends the interpreter with status 1.                  *)

GoodLog(v, i) == [transactionHash |-> Fill(Width32, v), logIndex |-> PyInt(FALSE, i),
                  topics |-> <<Fill(Width32, 221)>>, data |-> <<"0", "x">>]

LogSet == {GoodLog(17, <<>>), GoodLog(17, Fill(1, 1)), GoodLog(18, <<>>),
           GoodLog(18, Fill(1, 1) \o Fill(LogIndexWidth, 0))}

LogSeqs == UNION {[1..n -> LogSet] : n \in 0..MaxLogs}

ArgSet == [token_ok : BOOLEAN, from_le_to : BOOLEAN, connected : BOOLEAN,
           index : -2..(MaxLogs + 1)]

Call(fn, n, i) == [fn |-> fn, n |-> n, idx |-> i]

Exit(code) == pc' = "exit" /\ status' = code

Crash(e) == pc' = "exit" /\ status' = 1 /\ err' = e

(* the guard of line 142 without its test for a negative index *)
IndexOutOfRange_upper_only(idx, lvs) == idx >= Len(lvs)

(* line 142: if idx < 0 or idx >= len(leaves) *)
IndexOutOfRange(idx, lvs) == idx < 0 \/ idx >= Len(lvs)

InitMain ==
    /\ pc = "main"
    /\ args \in ArgSet
    /\ logs = <<>> /\ out = <<>> /\ trace = <<>> /\ status = -1
    /\ err = "none"
    /\ MerkleIdle /\ LeafIdle

(* lines 113-121 *)
CheckArgs ==
    /\ pc = "main"
    /\ IF ~args.token_ok
       THEN out' = Append(out, "invalid_token") /\ Exit(1)
       ELSE IF ~args.from_le_to
       THEN out' = Append(out, "bad_range") /\ Exit(1)
       ELSE out' = out /\ pc' = "connect" /\ status' = status
    /\ UNCHANGED <<args, logs, trace, err, merkleVars, leafVars>>

(* lines 123-126, connect *)
Connect ==
    /\ pc = "connect"
    /\ IF ~args.connected
       THEN out' = Append(out, "connect_failed") /\ Exit(1)
       ELSE /\ out' = out \o <<"connected", "token", "range">>
            /\ pc' = "fetch" /\ status' = status
    /\ UNCHANGED <<args, logs, trace, err, merkleVars, leafVars>>

(* lines 128-135 *)
Fetch ==
    /\ pc = "fetch"
    /\ \E ls \in LogSeqs :
        /\ logs' = ls
        /\ IF ls = <<>>
           THEN out' = Append(out, "no_events") /\ Exit(0)
           ELSE out' = Append(out, "events_fetched") /\ pc' = "encode" /\ status' = status
    /\ UNCHANGED <<args, trace, err, merkleVars, leafVars>>

(* line 137: leaves = [build_event_leaf(l) for l in logs] *)
Encode ==
    /\ pc = "encode"
    /\ LET rs == [i \in 1..Len(logs) |-> build_event_leaf(logs[i])]
           bad == {i \in 1..Len(logs) : rs[i].err # "none"}
       IN  IF bad # {}
           THEN /\ Crash(rs[CHOOSE i \in bad : \A j \in bad : i <= j].err)
                /\ leaves' = leaves
           ELSE /\ leaves' = [i \in 1..Len(logs) |-> rs[i].val[2]]
                /\ pc' = "build" /\ status' = status /\ err' = err
    /\ UNCHANGED <<args, logs, out, trace, tree, root, index, proof,
                   vleaf, vproof, vroot, ok, leafVars>>

(* lines 138-139 *)
BuildTree ==
    /\ pc = "build"
    /\ LET t == build_merkle_tree(leaves)
           r == merkle_root(t.val)
       IN  IF t.err # "none"
           THEN /\ Crash(t.err) /\ UNCHANGED <<tree, root>>
                /\ trace' = Append(trace, Call("build_merkle_tree", Len(leaves), 0))
           ELSE IF r.err # "none"
           THEN /\ Crash(r.err) /\ tree' = t.val /\ root' = root
                /\ trace' = trace \o <<Call("build_merkle_tree", Len(leaves), 0),
                                       Call("merkle_root", Len(leaves), 0)>>
           ELSE /\ tree' = t.val /\ root' = r.val
                /\ pc' = "check" /\ status' = status /\ err' = err
                /\ trace' = trace \o <<Call("build_merkle_tree", Len(leaves), 0),
                                       Call("merkle_root", Len(leaves), 0)>>
    /\ UNCHANGED <<args, logs, out, leaves, index, proof, vleaf, vproof, vroot, ok,
                   leafVars>>

(* lines 141-144 *)
CheckIndex ==
    /\ pc = "check"
    /\ index' = args.index
    /\ trace' = Append(trace, Call("index_check", Len(leaves), args.index))
    /\ IF IndexOutOfRange(args.index, leaves)
       THEN out' = Append(out, "index_out_of_range") /\ Exit(1)
       ELSE out' = out /\ pc' = "prove" /\ status' = status
    /\ UNCHANGED <<args, logs, err, leaves, tree, root, proof, vleaf, vproof, vroot, ok,
                   leafVars>>

(* lines 146-148 *)
ProveVerify ==
    /\ pc = "prove"
    /\ IF ~PyValid(leaves, index)
       THEN /\ Crash("IndexError")
            /\ UNCHANGED <<trace, proof, vleaf, vproof, vroot, ok>>
       ELSE LET lf == PyGet(leaves, index)
                p == merkle_proof(tree, index)
            IN  IF p.err # "none"
                THEN /\ Crash(p.err)
                     /\ trace' = Append(trace, Call("merkle_proof", Len(leaves), index))
                     /\ UNCHANGED <<proof, vleaf, vproof, vroot, ok>>
                ELSE /\ proof' = p.val
                     /\ vleaf' = lf /\ vproof' = p.val /\ vroot' = root
                     /\ ok' = verify_proof(lf, p.val, root)
                     /\ trace' = trace \o <<Call("merkle_proof", Len(leaves), index),
                                            Call("verify_proof", Len(leaves), index)>>
                     /\ pc' = "print" /\ status' = status /\ err' = err
    /\ UNCHANGED <<args, logs, out, leaves, tree, root, index, leafVars>>

(* lines 153-159; main returns and the interpreter exits with status 0 *)
PrintResult ==
    /\ pc = "print"
    /\ out' = out \o <<"root", "index", "proof">>
                  \o [d \in 1..Len(proof) |-> "step"]
                  \o <<IF ok THEN "ok" ELSE "fail", "time">>
    /\ Exit(0)
    /\ UNCHANGED <<args, logs, trace, err, merkleVars, leafVars>>

NextMain ==
    \/ CheckArgs \/ Connect \/ Fetch \/ Encode \/ BuildTree
    \/ CheckIndex \/ ProveVerify \/ PrintResult

SpecMain == InitMain /\ [][NextMain]_vars

-----------------------------------------------------------------------------
(* Shorthands of the properties. *)

Built == pc \in {"built", "rooted", "proved", "done"}
Rooted == pc \in {"rooted", "proved", "done"}
Proved == pc \in {"proved", "done"}
Is32(b) == ByteLen(b) = 32
Honest ==
    /\ pc = "done" /\ ValidIndex(index, leaves)
    /\ vleaf = leaves[index + 1] /\ vproof = proof /\ vroot = root

AllLeaves32(lvs) == \A i \in DOMAIN lvs : Is32(lvs[i])

(* a record the leaf encoder is to reject *)
Malformed(l) ==
    \/ ByteLen(l.transactionHash) # 32
    \/ ByteLen(l.topics[1]) # 32
    \/ l.logIndex.neg
    \/ Len(l.logIndex.mag) > 8

(* main has printed the line x *)
Printed(x) == \E i \in DOMAIN out : out[i] = x

RECURSIVE Pow2(_)
Pow2(n) == IF n = 0 THEN 1 ELSE 2 * Pow2(n - 1)

(* position, in level k, of the node on the path of leaf i *)
Running(i, k) == i \div Pow2(k - 1)

(* C1: round-trip inclusion.  For every non-empty leaf sequence and every  *)
(* valid index, merkle_proof returns a proof, and verify_proof of the leaf *)
(* at that index, that proof and the root of the tree is true, levels of   *)
(* odd length included.                                                    *)
RoundTripInclusion ==
    /\ Honest => ok = TRUE
    \* a raise after the root was read is a raise of merkle_proof
    /\ (pc = "raised" /\ root # <<>>) => ~ValidIndex(index, leaves)

RoundTripWitness ==
    /\ Honest /\ ok = TRUE
    /\ Len(leaves) = 5 /\ index = 4

RootBindsSequence ==
    (pc = "rooted" /\ AllLeaves32(leaves)) =>
        \A other \in LeafSeqs \ {<<>>, leaves} :
            AllLeaves32(other) => merkle_root(build_merkle_tree(other).val).val # root

(* C4: an index outside [0, n) is rejected.  merkle_proof returns a proof  *)
(* only for an index that is a position of level 0.                        *)
OutOfRangeRejected == Proved => ValidIndex(index, leaves)

(* C5: empty input is rejected.  build_merkle_tree of the empty sequence   *)
(* raises, and no tree and no root come out of it.                         *)
EmptyInputRejected ==
    leaves = <<>> =>
        /\ pc \in {"start", "raised"}
        /\ pc = "raised" => err = "ValueError"
        /\ tree = <<>> /\ root = <<>>

EmptyInputWitness == leaves = <<>> /\ pc = "raised" /\ err = "ValueError"

(* C7: duplicate-last.  In a level of odd length the last node x has the   *)
(* parent hash(x || x), and the proof of a leaf whose path runs through x  *)
(* records (x, right) at that level.  For three 32-byte leaves A, B, C:    *)
(* level 1 is [hash(A||B), hash(C||C)], the root is the hash of those two, *)
(* and the proof of index 2 is [(C, right), (hash(A||B), left)].           *)
DuplicateLast ==
    /\ Built =>
        \A k \in 1..(Len(tree) - 1) :
            LET n == Len(tree[k])
                x == tree[k][n]
            IN  n % 2 = 1 =>
                    /\ tree[k + 1][Len(tree[k + 1])] = Keccak(x \o x)
                    /\ (Proved /\ ValidIndex(index, leaves) /\ Running(index, k) = n - 1)
                        => proof[k] = <<x, "right">>
    /\ (Built /\ Len(leaves) = 3 /\ \A i \in 1..3 : Is32(leaves[i])) =>
        LET A == leaves[1]
            B == leaves[2]
            C == leaves[3]
            AB == Keccak(A \o B)
            CC == Keccak(C \o C)
        IN  /\ tree = << <<A, B, C>>, <<AB, CC>>, <<Keccak(AB \o CC)>> >>
            /\ Rooted => root = Keccak(AB \o CC)
            /\ (Proved /\ index = 2) => proof = << <<C, "right">>, <<AB, "left">> >>

DuplicateLastWitness ==
    /\ pc = "proved" /\ leaves = <<LeafA, LeafB, LeafC>> /\ index = 2
    /\ proof = << <<LeafC, "right">>, <<Keccak(LeafA \o LeafB), "left">> >>

(* C8: single leaf.  The tree of one 32-byte leaf A has one level, its     *)
(* root is A, the proof of index 0 is empty and verify_proof(A, [], A) is  *)
(* true.                                                                   *)
SingleLeafTree ==
    (Len(leaves) = 1 /\ Is32(leaves[1])) =>
        /\ Built => tree = << <<leaves[1]>> >>
        /\ Rooted => root = leaves[1]
        /\ (Proved /\ index = 0) => proof = <<>>
        /\ Honest => (vleaf = leaves[1] /\ vproof = <<>> /\ vroot = leaves[1] /\ ok = TRUE)

SingleLeafWitness ==
    /\ leaves = <<LeafA>> /\ Honest /\ index = 0
    /\ vleaf = LeafA /\ vproof = <<>> /\ vroot = LeafA /\ ok = TRUE

(* C9: tree shape.  For a non-empty leaf sequence build_merkle_tree        *)
(* returns; level 0 has one node per leaf, each next level has             *)
(* ceil(len/2) nodes, no level is empty, the last level and only the last  *)
(* has one node, and a proof of a valid index has one step per level below *)
(* the root level.                                                         *)
TreeShape ==
    \* neither build_merkle_tree nor merkle_root raises
    /\ (leaves # <<>> /\ pc = "raised") => root # <<>>
    /\ Built =>
        /\ Len(tree) >= 1
        /\ Len(tree[1]) = Len(leaves)
        /\ \A k \in 1..Len(tree) : Len(tree[k]) >= 1
        /\ \A k \in 1..(Len(tree) - 1) :
            /\ Len(tree[k]) > 1
            /\ 2 * Len(tree[k + 1]) \in {Len(tree[k]), Len(tree[k]) + 1}
        /\ Len(tree[Len(tree)]) = 1
    /\ (Proved /\ ValidIndex(index, leaves)) => Len(proof) = Len(tree) - 1

TreeShapeWitness ==
    /\ pc = "proved" /\ Len(leaves) = 5 /\ index = 3
    /\ Len(tree) = 4 /\ Len(tree[2]) = 3 /\ Len(tree[3]) = 2 /\ Len(proof) = 3

(* C6: the leaf encoder rejects malformed records.  build_event_leaf       *)
(* raises and gives no leaf when the transaction hash or topic0 is not 32  *)
(* bytes long or the log index is negative or wider than 8 bytes, and the  *)
(* payload it hashes for an accepted record is 104 bytes long.             *)
MalformedRecordRejected ==
    pc # "leaf_start" =>
        /\ Malformed(log) => (pc = "leaf_raised" /\ leaf = <<>>)
        /\ pc = "leaf_done" => ByteLen(payload) = 104

(* C10: the guards of main.  build_merkle_tree is called with a non-empty  *)
(* list only, an empty log result exits with status 0 before any call;     *)
(* merkle_proof and verify_proof are called only after the index check,    *)
(* with 0 <= index < len(leaves); an index out of range exits with status  *)
(* 1 and neither the root nor the proof is printed.                        *)
OrchestrationGuards ==
    /\ \A j \in DOMAIN trace :
        /\ trace[j].fn = "build_merkle_tree" => trace[j].n > 0
        /\ trace[j].fn \in {"merkle_proof", "verify_proof"} =>
            /\ 0 <= trace[j].idx /\ trace[j].idx < trace[j].n
            /\ \E i \in 1..(j - 1) : trace[i] = Call("index_check", trace[j].n, trace[j].idx)
    /\ (pc = "exit" /\ Printed("connected") /\ logs = <<>>) =>
        (status = 0 /\ trace = <<>> /\ tree = <<>>)
    /\ (pc = "exit" /\ tree # <<>> /\ ~ValidIndex(args.index, leaves)) =>
        (status = 1 /\ Printed("index_out_of_range"))
    /\ (Printed("root") \/ Printed("proof")) => ValidIndex(args.index, leaves)

OrchestrationWitness ==
    /\ pc = "exit" /\ status = 1 /\ Len(leaves) = 3 /\ args.index = -1
    /\ Printed("index_out_of_range") /\ ~Printed("root")
    /\ trace[Len(trace)] = Call("index_check", 3, -1)

====
